---------------------------- MODULE Spec2Model ----------------------------
(***************************************************************************)
(* A state-machine model of the REINFORCE-with-baseline core of            *)
(* balancing-bot:                                                          *)
(*   backend/src/algorithms/reinforce.py  REINFORCE.sample_rollout/update  *)
(*   backend/src/train.py                 main (the training loop)         *)
(*                                                                         *)
(* Two specifications share the method bodies:                             *)
(*   Spec      a client of the REINFORCE object that calls sample_rollout  *)
(*             and update in any order and survives their exceptions;      *)
(*   SpecMain  the loop of train.py, which calls sample_rollout then       *)
(*             update once per step and dies on the first exception.       *)
(*                                                                         *)
(* Floating point numbers are modelled in fixed point: a return is an      *)
(* integer count of 1/Scale, a standard deviation an integer count of      *)
(* 1/1000, and a float that may be NaN is a record [nan, v].               *)
(***************************************************************************)
EXTENDS Integers, Sequences, FiniteSets

\* ------------------------------------------------------------------ bounds
MaxRolloutLength == 5
MaxCalls == 3
MaxNumSteps == 2

\* rewards an environment step may report (CartPole reports 1 on every step)
Rewards == {0, 1}
\* discount factors gamma = num/den of the configuration, in [0, 1)
Gammas == {<<0, 10>>, <<5, 10>>, <<9, 10>>}
\* values of trainer.render_every_n_steps
RenderEvery == {1, 2}

RECURSIVE Pow(_, _)
Pow(b, e) == IF e = 0 THEN 1 ELSE b * Pow(b, e - 1)

\* one unit of reward in fixed point: every gamma^k * r with k < rollout_length is exact
Scale == Pow(10, MaxRolloutLength)
\* returns are reduced to thousandths before squaring (float32 keeps ~7 digits)
StatUnit == Scale \div Pow(10, 3)
\* the denominator std + eps is counted in units of 1e-8
EpsUnitsPerStat == Pow(10, 5)

\* self.eps = 1e-8, in units of 1e-8
eps == 1

VARIABLES
    driver,         \* "api" | "main": who calls the methods
    config,         \* [rollout_length, gamma, num_steps, render_every_n_steps]
    pc,             \* control position
    step,           \* main: the loop variable of line 81
    rollouts,       \* self.rollouts
    will_render,    \* sample_rollout's argument
    total_reward,   \* sample_rollout's local, in units of reward
    terminated,     \* sample_rollout's local
    truncated,      \* sample_rollout's local
    frames,         \* sample_rollout's local: [none |-> TRUE] or a sequence of renders
    returns,        \* update's local: discounted returns, in 1/Scale
    returns_t,      \* update's local: normalized returns
    loss,           \* update's local: [finite |-> BOOLEAN] or the marker "unset"
    params,         \* the model's parameters: [version, finite]
    grads,          \* the accumulated gradients: [of, finite]
    optState,       \* the optimizer's state: number of steps it has applied
    episode,        \* history: number of sample_rollout calls started
    envSteps,       \* history: environment.step calls in the current sample_rollout
    termAt,         \* history: the step of this call that first reported the end, or 0
    heldBefore,     \* history: the buffer held transitions when sample_rollout was called
    optCalls,       \* history: zero_grad/backward/step calls of the current update
    atEntry,        \* history: buffer, parameters, gradients, optimizer at update's entry
    last,           \* history: [call, outcome] of the last call that ended
    calls,          \* history: number of method calls started
    nonEmptyIters   \* history: main iterations whose rollout recorded a transition

vars == <<driver, config, pc, step, rollouts, will_render, total_reward, terminated,
          truncated, frames, returns, returns_t, loss, params, grads, optState,
          episode, envSteps, termAt, heldBefore, optCalls, atEntry, last, calls, nonEmptyIters>>

sampleLocals == <<will_render, total_reward, terminated, truncated, frames,
                  episode, envSteps, termAt, heldBefore>>
updateLocals == <<returns, returns_t, loss, optCalls, atEntry>>
modelState == <<params, grads, optState>>
driverState == <<driver, config, step, calls, nonEmptyIters>>

NoFrames == [none |-> TRUE, seq |-> <<>>]
Frames(s) == [none |-> FALSE, seq |-> s]

\* ------------------------------------------------------------------ floats
NaN == [nan |-> TRUE, v |-> 0]
Float(x) == [nan |-> FALSE, v |-> x]

RECURSIVE SumSeq(_)
SumSeq(s) == IF s = <<>> THEN 0 ELSE Head(s) + SumSeq(Tail(s))

RECURSIVE ISqrtIn(_, _, _)
ISqrtIn(x, lo, hi) ==
    IF hi - lo <= 1 THEN lo
    ELSE LET mid == (lo + hi) \div 2
         IN IF mid * mid <= x THEN ISqrtIn(x, mid, hi) ELSE ISqrtIn(x, lo, mid)

\* floor of the square root of x, for 0 <= x < 46340^2
ISqrt(x) == ISqrtIn(x, 0, 46340)


\* ------------------------------------------------------------- update: maths
\* r.item() if isinstance(r, torch.Tensor) else float(r), in 1/Scale
RewardValue(r) == r * Scale

\* gamma * cum_reward
Discount(gamma, cum) == (gamma[1] * cum) \div gamma[2]

\* a faulty variant of InsertFront: returns.append(cum_reward)
InsertBack(rets, cum) == Append(rets, cum)

\* returns.insert(0, cum_reward)
InsertFront(rets, cum) == <<cum>> \o rets

\* the loop "for _, _, r in reversed(self.rollouts)": k runs from Len(buf) down to 1
RECURSIVE ReturnPass(_, _, _, _, _)
ReturnPass(buf, gamma, k, cum_reward, rets) ==
    IF k = 0 THEN rets
    ELSE LET cum == RewardValue(buf[k].reward) + Discount(gamma, cum_reward)
         IN ReturnPass(buf, gamma, k - 1, cum, InsertFront(rets, cum))

\* returns = [] ; cum_reward = 0.0 ; the loop
DiscountedReturns(buf, gamma) == ReturnPass(buf, gamma, Len(buf), 0, <<>>)

\* returns_t.mean(), in 1/Scale; the mean of an empty tensor is NaN
Mean(rets) ==
    IF Len(rets) = 0 THEN NaN ELSE Float(SumSeq(rets) \div Len(rets))

\* torch.Tensor.std() is the unbiased estimator: it divides by n - 1
DegreesOfFreedom(n) == n - 1

\* returns_t.std(), in thousandths; NaN when the degrees of freedom are <= 0
Std(rets) ==
    LET n == Len(rets)
        dof == DegreesOfFreedom(n)
        m == Mean(rets).v
        dev(i) == (rets[i] - m) \div StatUnit
        sq == [i \in 1..n |-> dev(i) * dev(i)]
    IN IF n = 0 \/ dof <= 0 THEN NaN ELSE Float(ISqrt(SumSeq(sq) \div dof))

\* returns_t.std() + self.eps, in units of 1e-8
Denominator(rets) ==
    LET sd == Std(rets)
    IN IF sd.nan THEN NaN ELSE Float(sd.v * EpsUnitsPerStat + eps)

\* one element of (returns_t - mean) / (std + eps): the quotient num/den, NaN when
\* either operand is NaN or the quotient is 0/0, infinite when only den is 0
Quotient(num, den) ==
    [nan |-> num.nan \/ den.nan \/ (num.v = 0 /\ den.v = 0),
     inf |-> ~num.nan /\ ~den.nan /\ num.v # 0 /\ den.v = 0,
     num |-> num.v, den |-> den.v]

\* returns_t = (returns_t - returns_t.mean()) / (returns_t.std() + self.eps)
Normalize(rets) ==
    LET m == Mean(rets)
        d == Denominator(rets)
    IN [i \in 1..Len(rets) |->
           Quotient(IF m.nan THEN NaN ELSE Float(rets[i] - m.v), d)]

IsFinite(q) == ~q.nan /\ ~q.inf

\* loss = torch.stack(policy_losses).sum() + torch.stack(value_losses).sum():
\* finite exactly when every normalized return is (log_prob and value are finite)
TotalLoss(rets_t) == [finite |-> \A i \in 1..Len(rets_t) : IsFinite(rets_t[i])]


\* ------------------------------------------------------------ calls, returns
\* where control goes when a method ends: back into main's loop body, out of main
\* with the exception (main catches nothing), or back to the client
AfterCall(call, outcome) ==
    IF driver = "main"
    THEN IF outcome = "raised" THEN "crashed"
         ELSE IF call = "sample_rollout" THEN "main_update" ELSE "main_rest"
    ELSE "idle"

Ends(call, outcome) ==
    /\ pc' = AfterCall(call, outcome)
    /\ last' = [call |-> call, outcome |-> outcome]

\* update's locals before it computes them, and after it ended
NoLocals ==
    /\ returns' = <<>>
    /\ returns_t' = <<>>
    /\ loss' = [finite |-> TRUE]

\* the history of update's entry while no update has been called since the last rollout
NoEntry == [rollouts |-> <<>>, params |-> [version |-> 0, finite |-> TRUE],
            grads |-> [of |-> 0, finite |-> TRUE], optState |-> 0]

\* --------------------------------------------------------- sample_rollout
\* Rollout = namedtuple("Rollout", ["log_prob", "value", "reward"]); log_prob and
\* value are the outputs of the forward pass of step t of episode ep
Rollout(ep, t, reward) ==
    [log_prob |-> <<ep, t>>, value |-> <<ep, t>>, reward |-> reward]

\* a faulty variant of ClearAtEntry: the defensive clear forgotten
KeepAtEntry(buf) == buf

\* self.rollouts.clear() at the start of sample_rollout
ClearAtEntry(buf) == <<>>

\* a faulty variant of Breaks: truncation ignored
BreaksOnTerminatedOnly(term, trunc) == term

\* a faulty variant of Breaks: the loop leaves after its first step whatever happened
BreaksAlways(term, trunc) == TRUE

\* a faulty variant of Breaks: the loop always runs to the cap
BreaksNever(term, trunc) == FALSE

\* if terminated or truncated: break
Breaks(term, trunc) == term \/ trunc

\* a faulty variant of RenderAfterStep: the render taken before the break test
RenderEveryStep(fr, render, t, broke) ==
    IF render THEN Frames(Append(fr.seq, t)) ELSE fr

\* if will_render: frames.append(self.environment.render()), reached only when the
\* loop did not break; a render is named by the index of the state it shows
RenderAfterStep(fr, render, t, broke) ==
    IF render /\ ~broke THEN Frames(Append(fr.seq, t)) ELSE fr

\* lines 63-78: clear the buffer, reset the environment, initialise the locals
SampleRolloutEnter(render) ==
    /\ rollouts' = ClearAtEntry(rollouts)
    /\ will_render' = render
    /\ total_reward' = 0
    /\ terminated' = FALSE
    /\ truncated' = FALSE
    /\ frames' = IF render THEN Frames(<<0>>) ELSE NoFrames
    /\ episode' = episode + 1
    /\ envSteps' = 0
    /\ termAt' = 0
    /\ heldBefore' = (rollouts # <<>>)
    /\ calls' = calls + 1
    /\ pc' = "sr_loop"
    /\ optCalls' = <<>>
    /\ atEntry' = NoEntry
    /\ UNCHANGED <<driver, config, nonEmptyIters, last>>
    /\ UNCHANGED <<returns, returns_t, loss, modelState>>

\* lines 80-100: one iteration of the loop; the environment chooses the outcome
SR_Step ==
    /\ pc = "sr_loop"
    /\ envSteps < config.rollout_length
    /\ \E reward \in Rewards, term \in BOOLEAN, trunc \in BOOLEAN :
          LET t == envSteps + 1
              broke == Breaks(term, trunc)
          IN /\ envSteps' = t
             /\ total_reward' = total_reward + reward
             /\ terminated' = term
             /\ truncated' = trunc
             /\ rollouts' = Append(rollouts, Rollout(episode, t, reward))
             /\ termAt' = IF termAt = 0 /\ (term \/ trunc) THEN t ELSE termAt
             /\ frames' = RenderAfterStep(frames, will_render, t, broke)
             /\ pc' = IF broke THEN "sr_exit" ELSE "sr_loop"
    /\ UNCHANGED <<will_render, episode, heldBefore, last>>
    /\ UNCHANGED <<driverState, updateLocals, modelState>>

\* line 86: environment.step raises; the exception leaves sample_rollout
SR_StepRaises ==
    /\ pc = "sr_loop"
    /\ envSteps < config.rollout_length
    /\ envSteps' = envSteps + 1
    /\ Ends("sample_rollout", "raised")
    /\ UNCHANGED <<rollouts, will_render, total_reward, terminated, truncated,
                   frames, episode, termAt, heldBefore>>
    /\ UNCHANGED <<driverState, updateLocals, modelState>>

\* line 80: range(rollout_length) is exhausted
SR_LoopEnds ==
    /\ pc = "sr_loop"
    /\ envSteps >= config.rollout_length
    /\ pc' = "sr_exit"
    /\ UNCHANGED <<rollouts, last>>
    /\ UNCHANGED <<sampleLocals, driverState, updateLocals, modelState>>

\* lines 102-103: stack the frames (order and number kept) and return
SR_Return ==
    /\ pc = "sr_exit"
    /\ Ends("sample_rollout", "returned")
    /\ UNCHANGED rollouts
    /\ UNCHANGED <<sampleLocals, driverState, updateLocals, modelState>>


\* ------------------------------------------------------------------ update
Snapshot == [rollouts |-> rollouts, params |-> params, grads |-> grads,
             optState |-> optState]

\* the call of update(model, optimizer)
UpdateEnter ==
    /\ atEntry' = Snapshot
    /\ optCalls' = <<>>
    /\ NoLocals
    /\ calls' = calls + 1
    /\ pc' = "up_begin"
    /\ UNCHANGED <<driver, config, nonEmptyIters, last, rollouts>>
    /\ UNCHANGED <<sampleLocals, modelState>>

\* a faulty variant of NothingToDo: the guard forgotten
NeverNothingToDo(buf) == FALSE

\* if not self.rollouts: return
NothingToDo(buf) == buf = <<>>

\* lines 29-32
UP_Guard ==
    /\ pc = "up_begin"
    /\ IF NothingToDo(rollouts)
       THEN Ends("update", "returned")
       ELSE pc' = "up_returns" /\ UNCHANGED last
    /\ UNCHANGED rollouts
    /\ UNCHANGED <<sampleLocals, driverState, updateLocals, modelState>>

\* lines 34-44: the discounted returns, then their normalization
UP_Returns ==
    /\ pc = "up_returns"
    /\ returns' = DiscountedReturns(rollouts, config.gamma)
    /\ returns_t' = Normalize(returns')
    /\ pc' = "up_loss"
    /\ UNCHANGED <<rollouts, last, loss, optCalls, atEntry>>
    /\ UNCHANGED <<sampleLocals, driverState, modelState>>

\* a faulty variant of GradientStep: optimizer.zero_grad() forgotten
GradientStepWithoutZeroGrad(at) ==
    CASE at = "up_loss" -> "up_backward"
      [] at = "up_backward" -> "up_step"
      [] at = "up_step" -> "up_clear"
      [] OTHER -> "up_zero"

\* the statement that follows statement `at` in lines 55-61:
\* loss = ... ; optimizer.zero_grad() ; loss.backward() ; optimizer.step() ; clear
GradientStep(at) ==
    CASE at = "up_loss" -> "up_zero"
      [] at = "up_zero" -> "up_backward"
      [] at = "up_backward" -> "up_step"
      [] at = "up_step" -> "up_clear"
      [] OTHER -> "up_zero"

\* lines 46-55: the per-step losses and their sum; torch.stack raises on an empty list
UP_Loss ==
    /\ pc = "up_loss"
    /\ IF rollouts = <<>>
       THEN Ends("update", "raised") /\ NoLocals
       ELSE /\ loss' = TotalLoss(returns_t)
            /\ pc' = GradientStep(pc)
            /\ UNCHANGED <<last, returns, returns_t>>
    /\ UNCHANGED <<rollouts, optCalls, atEntry>>
    /\ UNCHANGED <<sampleLocals, driverState, modelState>>

\* line 56: optimizer.zero_grad()
UP_ZeroGrad ==
    /\ pc = "up_zero"
    /\ grads' = [of |-> 0, finite |-> TRUE]
    /\ optCalls' = Append(optCalls, "zero_grad")
    /\ pc' = GradientStep(pc)
    /\ UNCHANGED <<rollouts, last, returns, returns_t, loss, atEntry, params, optState>>
    /\ UNCHANGED <<sampleLocals, driverState>>

\* line 57: loss.backward() accumulates the gradient of this episode's loss
UP_Backward ==
    /\ pc = "up_backward"
    /\ grads' = [of |-> rollouts[1].log_prob[1], finite |-> grads.finite /\ loss.finite]
    /\ optCalls' = Append(optCalls, "backward")
    /\ pc' = GradientStep(pc)
    /\ UNCHANGED <<rollouts, last, returns, returns_t, loss, atEntry, params, optState>>
    /\ UNCHANGED <<sampleLocals, driverState>>

\* line 58: optimizer.step() moves the parameters along the gradient
UP_Step ==
    /\ pc = "up_step"
    /\ params' = [version |-> params.version + 1,
                  finite |-> params.finite /\ grads.finite]
    /\ optState' = optState + 1
    /\ optCalls' = Append(optCalls, "step")
    /\ pc' = GradientStep(pc)
    /\ UNCHANGED <<rollouts, last, returns, returns_t, loss, atEntry, grads>>
    /\ UNCHANGED <<sampleLocals, driverState>>

\* a faulty variant of ClearAfterUpdate: the buffer kept
KeepAfterUpdate(buf) == buf

\* self.rollouts.clear() at the end of update
ClearAfterUpdate(buf) == <<>>

\* line 61, and the return
UP_Clear ==
    /\ pc = "up_clear"
    /\ rollouts' = ClearAfterUpdate(rollouts)
    /\ Ends("update", "returned")
    /\ NoLocals
    /\ UNCHANGED <<optCalls, atEntry>>
    /\ UNCHANGED <<sampleLocals, driverState, modelState>>

\* lines 42, 57, 58: the tensor construction, the backward pass or the optimizer
\* step raises (out of memory, a device error); nothing in update catches it
UP_Raises ==
    /\ pc \in {"up_returns", "up_backward", "up_step"}
    /\ Ends("update", "raised")
    /\ NoLocals
    /\ UNCHANGED <<rollouts, optCalls, atEntry>>
    /\ UNCHANGED <<sampleLocals, driverState, modelState>>

\* ------------------------------------------------------- the object's client
\* algorithm.sample_rollout(model, device, will_render), called by any client
CallSampleRollout ==
    /\ pc = "idle"
    /\ calls < MaxCalls
    /\ \E render \in BOOLEAN : SampleRolloutEnter(render)
    /\ UNCHANGED step

\* algorithm.update(model, optimizer), called by any client
CallUpdate ==
    /\ pc = "idle"
    /\ calls < MaxCalls
    /\ UpdateEnter
    /\ UNCHANGED step

\* ------------------------------------------------------------ train.py main
\* lines 81-89: the next step of the loop, and its call of sample_rollout
MainSample ==
    /\ pc = "main_loop"
    /\ step < config.num_steps
    /\ step' = step + 1
    /\ SampleRolloutEnter(step' % config.render_every_n_steps = 0)

\* line 90: algorithm.update(policy_model, optimizer)
MainUpdate ==
    /\ pc = "main_update"
    /\ atEntry' = Snapshot
    /\ optCalls' = <<>>
    /\ NoLocals
    /\ calls' = calls + 1
    /\ nonEmptyIters' = nonEmptyIters + (IF rollouts # <<>> THEN 1 ELSE 0)
    /\ pc' = "up_begin"
    /\ UNCHANGED <<driver, config, step, last, rollouts>>
    /\ UNCHANGED <<sampleLocals, modelState>>

\* lines 92-131: logging and checkpoints; they read the rollout's results only
MainRest ==
    /\ pc = "main_rest"
    /\ pc' = "main_loop"
    /\ UNCHANGED <<rollouts, last>>
    /\ UNCHANGED <<sampleLocals, driverState, updateLocals, modelState>>

\* lines 133-139: the loop is over
MainDone ==
    /\ pc = "main_loop"
    /\ step >= config.num_steps
    /\ pc' = "main_done"
    /\ UNCHANGED <<rollouts, last>>
    /\ UNCHANGED <<sampleLocals, driverState, updateLocals, modelState>>

\* ------------------------------------------------------------ specifications
\* REINFORCE.__init__ and a fresh model and optimizer
InitObject ==
    /\ rollouts = <<>>
    /\ will_render = FALSE
    /\ total_reward = 0
    /\ terminated = FALSE
    /\ truncated = FALSE
    /\ frames = NoFrames
    /\ returns = <<>>
    /\ returns_t = <<>>
    /\ loss = [finite |-> TRUE]
    /\ params = [version |-> 0, finite |-> TRUE]
    /\ grads = [of |-> 0, finite |-> TRUE]
    /\ optState = 0
    /\ episode = 0
    /\ envSteps = 0
    /\ termAt = 0
    /\ heldBefore = FALSE
    /\ optCalls = <<>>
    /\ atEntry = NoEntry
    /\ last = [call |-> "none", outcome |-> "none"]
    /\ calls = 0
    /\ nonEmptyIters = 0
    /\ step = 0

Init ==
    /\ driver = "api"
    /\ pc = "idle"
    /\ \E n \in 0..MaxRolloutLength, g \in Gammas :
          config = [rollout_length |-> n, gamma |-> g, num_steps |-> 0,
                    render_every_n_steps |-> 1]
    /\ InitObject

InitMain ==
    /\ driver = "main"
    /\ pc = "main_loop"
    /\ \E n \in 0..MaxRolloutLength, g \in Gammas, m \in 1..MaxNumSteps,
          e \in RenderEvery :
          config = [rollout_length |-> n, gamma |-> g, num_steps |-> m,
                    render_every_n_steps |-> e]
    /\ InitObject

Methods ==
    \/ SR_Step
    \/ SR_StepRaises
    \/ SR_LoopEnds
    \/ SR_Return
    \/ UP_Guard
    \/ UP_Returns
    \/ UP_Loss
    \/ UP_ZeroGrad
    \/ UP_Backward
    \/ UP_Step
    \/ UP_Clear
    \/ UP_Raises

Next == CallSampleRollout \/ CallUpdate \/ Methods

NextMain == MainSample \/ MainUpdate \/ MainRest \/ MainDone \/ Methods

Spec == Init /\ [][Next]_vars

SpecMain == InitMain /\ [][NextMain]_vars


\* ------------------------------------------------------------------ claims
InSampleRollout == pc \in {"sr_loop", "sr_exit"}

\* sample_rollout has just returned: nothing was called since
SampleReturned ==
    /\ pc \in {"idle", "main_update"}
    /\ last = [call |-> "sample_rollout", outcome |-> "returned"]

InUpdate ==
    pc \in {"up_begin", "up_returns", "up_loss", "up_zero", "up_backward",
            "up_step", "up_clear"}

\* update has just ended, by a return or by an exception: nothing was called since
UpdateEnded ==
    /\ pc \in {"idle", "main_rest", "crashed"}
    /\ last.call = "update"

UpdateReturned == UpdateEnded /\ last.outcome = "returned"

UpdateRaised == UpdateEnded /\ last.outcome = "raised"

\* update has computed its returns and not yet ended
ReturnsComputed == pc \in {"up_loss", "up_zero", "up_backward", "up_step", "up_clear"}

\* the buffer holds the first Len(rollouts) steps of the current episode, in order
ChronologicalOfEpisode ==
    \A i \in 1..Len(rollouts) :
        /\ rollouts[i].log_prob = <<episode, i>>
        /\ rollouts[i].value = <<episode, i>>

\* C1: in sample_rollout, when the environment reports terminated or truncated on
\* step k (1 <= k <= rollout_length), exactly k transitions are recorded, the
\* terminal one included, and environment.step is not called a (k+1)-th time: this
\* holds from that step on, through the return of the call.
C1_EarlyStopRecordsExactlyK ==
    \A k \in 1..config.rollout_length :
        ((InSampleRollout \/ SampleReturned) /\ termAt = k)
            => /\ Len(rollouts) = k
               /\ rollouts[k].log_prob = <<episode, k>>
               /\ envSteps = k
               /\ pc # "sr_loop"

C1_Witness ==
    /\ SampleReturned
    /\ config.rollout_length = MaxRolloutLength
    /\ termAt = 3
    /\ Len(rollouts) = 3
    /\ terminated

\* C2: whenever sample_rollout returns, whatever the buffer held before the call,
\* the buffer holds exactly one entry per environment step executed in that call,
\* in chronological order; and in every reachable state the buffer is no longer
\* than rollout_length.
C2_OneEntryPerStep ==
    /\ Len(rollouts) <= config.rollout_length
    /\ SampleReturned => (Len(rollouts) = envSteps /\ ChronologicalOfEpisode)

C2_Witness ==
    /\ SampleReturned
    /\ heldBefore
    /\ Len(rollouts) >= 2
    /\ Len(rollouts) < config.rollout_length

\* C3 as stated: after sample_rollout returns, the buffer length equals
\* rollout_length only if no step of the call reported terminated or truncated,
\* the rollout_length-th step included.
C3_FullOnlyIfNoEnd ==
    (SampleReturned /\ Len(rollouts) = config.rollout_length) => termAt = 0

\* C3 amended: after sample_rollout returns, the buffer length equals
\* rollout_length only if no step before the rollout_length-th reported
\* terminated or truncated (the end may be reported on the rollout_length-th).
C3_FullOnlyIfNoEarlierEnd ==
    (SampleReturned /\ Len(rollouts) = config.rollout_length)
        => termAt \in {0, config.rollout_length}

C3_Witness ==
    /\ SampleReturned
    /\ config.rollout_length >= 2
    /\ Len(rollouts) = config.rollout_length
    /\ termAt = config.rollout_length

C5_EmptyBufferNoOp ==
    ((InUpdate \/ UpdateEnded) /\ atEntry.rollouts = <<>>)
        => /\ pc \notin {"up_zero", "up_backward", "up_step", "up_clear"}
           /\ optCalls = <<>>
           /\ params = atEntry.params
           /\ grads = atEntry.grads
           /\ optState = atEntry.optState
           /\ rollouts = <<>>
           /\ UpdateEnded => last.outcome = "returned"

C5_Witness ==
    /\ UpdateReturned
    /\ atEntry.rollouts = <<>>
    /\ params.version = 1
    /\ optState = 1

IsPrefix(s, t) == Len(s) <= Len(t) /\ \A i \in 1..Len(s) : s[i] = t[i]

\* C7: a call of update on a non-empty buffer calls optimizer.zero_grad, then
\* loss.backward, then optimizer.step, each once and in this order (a call that
\* raises stops somewhere along this order), which is one gradient step; so after
\* n iterations of the training loop the optimizer has taken as many steps as
\* there were iterations whose rollout recorded a transition.
C7_OneGradientStepPerBuffer ==
    /\ IsPrefix(optCalls, <<"zero_grad", "backward", "step">>)
    /\ (UpdateReturned /\ atEntry.rollouts # <<>>)
          => /\ optCalls = <<"zero_grad", "backward", "step">>
             /\ optState = atEntry.optState + 1
             /\ params.version = atEntry.params.version + 1
    /\ pc \in {"main_loop", "main_done"}
          => /\ optState = nonEmptyIters
             /\ nonEmptyIters <= step

C7_Witness ==
    /\ pc = "main_done"
    /\ step = 2
    /\ optState = 2
    /\ optCalls = <<"zero_grad", "backward", "step">>

\* the returns of the example: rewards [1,1,1,1,1] and gamma = 0.9 give
\* [4.0951, 3.439, 2.71, 1.9, 1.0]
ExampleReturns ==
    LET tenThousandth == Scale \div 10000
    IN <<40951 * tenThousandth, 34390 * tenThousandth, 27100 * tenThousandth,
         19000 * tenThousandth, 10000 * tenThousandth>>

\* C8: for a buffer of rewards r_1..r_n the returns are n numbers in the buffer's
\* order with G_n = r_n and G_t = r_t + gamma * G_(t+1) for t < n; for rewards
\* [1,1,1,1,1] and gamma = 0.9 they are [4.0951, 3.439, 2.71, 1.9, 1.0].
C8_DiscountRecursion ==
    ReturnsComputed =>
        LET n == Len(rollouts)
            g == config.gamma
        IN /\ Len(returns) = n
           /\ returns[n] = rollouts[n].reward * Scale
           /\ \A t \in 1..(n - 1) :
                 g[2] * (returns[t] - rollouts[t].reward * Scale) = g[1] * returns[t + 1]
           /\ (n = 5 /\ g = <<9, 10>> /\ \A t \in 1..n : rollouts[t].reward = 1)
                 => returns = ExampleReturns

C8_Witness ==
    /\ pc = "up_loss"
    /\ config.gamma = <<9, 10>>
    /\ Len(rollouts) = 5
    /\ \A t \in 1..5 : rollouts[t].reward = 1
    /\ returns = ExampleReturns

\* C9: for a buffer of one transition the standard deviation of the returns is 0,
\* the denominator of the normalization is epsilon, and the normalized return is
\* finite.
C9_SingleStepFinite ==
    (ReturnsComputed /\ Len(rollouts) = 1)
        => /\ Std(returns) = Float(0)
           /\ Denominator(returns) = Float(eps)
           /\ IsFinite(returns_t[1])

\* C10: when frames are requested and the episode ends on step k, the returned
\* frames are in capture order and there are k of them; when frames are not
\* requested, frames is None.
C10_FramesMatchSteps ==
    SampleReturned =>
        /\ ~will_render => frames = NoFrames
        /\ will_render =>
              /\ ~frames.none
              /\ \A j \in 1..Len(frames.seq) : frames.seq[j] = j - 1
              /\ termAt # 0 => Len(frames.seq) = termAt

C10_Witness ==
    /\ SampleReturned
    /\ will_render
    /\ config.rollout_length = MaxRolloutLength
    /\ termAt = 2
    /\ frames.seq = <<0, 1>>

=============================================================================
